---------------------------- MODULE Spec2Model ----------------------------
(***************************************************************************)
(* A model of poker.py: cards, 5-card hands (classification, canonical     *)
(* card order, ordering and equality), best_possible_hand and the Deck.    *)
(*                                                                         *)
(* A card is a record [suit, rank]; its rank is the rank symbol, compared  *)
(* through the index of the symbol in RANKS, as the code does.  The four   *)
(* suit glyphs are written S, H, D, C: the code only tests suits for       *)
(* equality.  A Hand is a record [rank, cards, err]: err is "" for a       *)
(* constructed Hand and the name of the exception when the constructor     *)
(* raises (then no Hand exists, and rank is 0).                            *)
(***************************************************************************)
EXTENDS Integers, Sequences, FiniteSets

VARIABLES
    pc,        \* position of the driver that calls the library
    dealt,     \* the card tuples handed to Hand(...), in call order
    hA,        \* first Hand constructed
    hB,        \* second Hand constructed
    hC,        \* third Hand constructed
    public,    \* community cards handed to best_possible_hand
    private,   \* hole cards handed to best_possible_hand
    best,      \* result of best_possible_hand
    deck,      \* Deck.cards
    drawn,     \* cards returned by Deck.draw, in order
    drawErr,   \* exception raised by the last Deck.draw, "" when none
    calls      \* number of Deck.draw calls made

vars == <<pc, dealt, hA, hB, hC, public, private, best, deck, drawn, drawErr, calls>>

----------------------------------------------------------------------------
(* Module constants                                                        *)

SUITS == <<"S", "H", "D", "C">>

RANKS == <<"2", "3", "4", "5", "6", "7", "8", "9", "10", "J", "Q", "K", "A">>

RankSymbols == {RANKS[i] : i \in 1..Len(RANKS)}

\* RANKS.index(r), 0-based, for every rank symbol
RankIndexTable == [r \in RankSymbols |-> (CHOOSE i \in 1..Len(RANKS) : RANKS[i] = r) - 1]

RanksIndex(r) == RankIndexTable[r]

HIGH_CARD == 1
PAIR == 2
TWO_PAIR == 3
THREE_OF_KIND == 4
STRAIGHT == 5
FLUSH == 6
FULL_HOUSE == 7
FOUR_OF_KIND == 8
STRAIGHT_FLUSH == 9

\* HandRanking.__lt__, and the __gt__ that total_ordering derives from it
RankingLt(x, y) == x < y

RankingGt(x, y) == ~RankingLt(x, y) /\ x /= y

----------------------------------------------------------------------------
(* Card                                                                    *)

Card(suit, rank) == [suit |-> suit, rank |-> rank]

CardLt(a, b) == RanksIndex(a.rank) < RanksIndex(b.rank)

\* mutant: equality that also compares the suit
CardEqWithSuit(a, b) == a.rank = b.rank /\ a.suit = b.suit

CardEq(a, b) == a.rank = b.rank

\* total_ordering: a > b is  not (a < b) and a != b
CardGt(a, b) == ~CardLt(a, b) /\ ~CardEq(a, b)

----------------------------------------------------------------------------
(* sorted(cards): a stable sort that uses only Card.__lt__                 *)

RECURSIVE InsertCard(_, _)
InsertCard(s, x) ==
    IF s = <<>> THEN <<x>>
    ELSE IF CardLt(x, s[Len(s)]) THEN Append(InsertCard(SubSeq(s, 1, Len(s) - 1), x), s[Len(s)])
    ELSE Append(s, x)

RECURSIVE Sorted(_)
Sorted(cards) ==
    IF cards = <<>> THEN <<>>
    ELSE InsertCard(Sorted(SubSeq(cards, 1, Len(cards) - 1)), cards[Len(cards)])

----------------------------------------------------------------------------
(* Hand.get_dups                                                           *)

\* the loop over self.cards[1:], with cur_dup and dups as they stand before card i
RECURSIVE DupScan(_, _, _, _)
DupScan(cards, i, dups, cur) ==
    IF i > Len(cards)
    THEN IF Len(cur) > 1 THEN Append(dups, cur) ELSE dups
    ELSE IF ~CardEq(cur[1], cards[i])
         THEN DupScan(cards, i + 1, IF Len(cur) > 1 THEN Append(dups, cur) ELSE dups, <<cards[i]>>)
         ELSE DupScan(cards, i + 1, dups, Append(cur, cards[i]))

\* mutant: the dup groups are left in the order they were met
SwapDupsNever(dups) == dups

\* the swap that puts a three-of-a-kind second
SwapDups(dups) ==
    IF Len(dups) = 2 /\ Len(dups[1]) > Len(dups[2])
    THEN <<dups[2], dups[1]>>
    ELSE dups

\* cards is not empty (self.cards[0] raises IndexError otherwise, see HandInit)
get_dups(cards) == SwapDups(DupScan(cards, 2, <<>>, <<cards[1]>>))

----------------------------------------------------------------------------
(* Hand.is_flush, Hand.is_straight                                         *)

is_flush(cards) == \A i \in 2..Len(cards) : cards[i].suit = cards[1].suit

\* the for loop of is_straight over i = 1..4 (ranks is 1-based here):
\* "all" when it ends without break, "break", or "IndexError" when ranks[i]
\* does not exist
RECURSIVE StraightScan(_, _)
StraightScan(ranks, i) ==
    IF i > 4 THEN "all"
    ELSE IF i >= Len(ranks) THEN "IndexError"
    ELSE IF ranks[i] /= ranks[i + 1] - 1 THEN "break"
    ELSE StraightScan(ranks, i + 1)

WheelRanks == <<0, 1, 2, 3, 12>>

\* mutant: the wheel is recognised but the ace is not moved to the front
is_straightNoRotate(cards) ==
    LET ranks == [i \in 1..Len(cards) |-> RanksIndex(cards[i].rank)]
        scan == StraightScan(ranks, 1)
    IN  IF scan = "IndexError" THEN [res |-> FALSE, cards |-> cards, err |-> "IndexError"]
        ELSE [res |-> scan = "all" \/ ranks = WheelRanks, cards |-> cards, err |-> ""]

\* [res, cards, err]: the value returned, self.cards afterwards, the exception
is_straight(cards) ==
    LET ranks == [i \in 1..Len(cards) |-> RanksIndex(cards[i].rank)]
        scan == StraightScan(ranks, 1)
    IN  IF scan = "IndexError" THEN [res |-> FALSE, cards |-> cards, err |-> "IndexError"]
        ELSE IF scan = "all" THEN [res |-> TRUE, cards |-> cards, err |-> ""]
        ELSE IF ranks = WheelRanks
             THEN [res |-> TRUE,
                   cards |-> <<cards[Len(cards)]>> \o SubSeq(cards, 1, Len(cards) - 1),
                   err |-> ""]
             ELSE [res |-> FALSE, cards |-> cards, err |-> ""]

----------------------------------------------------------------------------
(* Hand.rearrange_dups                                                     *)

RECURSIVE Flatten(_)
Flatten(dups) == IF dups = <<>> THEN <<>> ELSE dups[1] \o Flatten(Tail(dups))

\* self.cards.pop(self.cards.index(dup)): drops the first card equal to dup
PopFirstEq(cards, dup) ==
    LET i == CHOOSE k \in 1..Len(cards) :
                 CardEq(cards[k], dup) /\ \A j \in 1..(k - 1) : ~CardEq(cards[j], dup)
    IN  SubSeq(cards, 1, i - 1) \o SubSeq(cards, i + 1, Len(cards))

RECURSIVE PopAll(_, _)
PopAll(cards, flat) ==
    IF flat = <<>> THEN cards ELSE PopAll(PopFirstEq(cards, flat[1]), Tail(flat))

rearrange_dups(cards, dups) == PopAll(cards, Flatten(dups)) \o Flatten(dups)

----------------------------------------------------------------------------
(* Hand.__init__                                                           *)

Raised(e) == [rank |-> 0, cards |-> <<>>, err |-> e]

Built(r, cards) == [rank |-> r, cards |-> cards, err |-> ""]

\* the branch taken when dups is not empty
DupRanking(dups) ==
    IF Len(dups) = 2
    THEN IF Len(dups[2]) = 3 THEN FULL_HOUSE ELSE TWO_PAIR
    ELSE IF Len(dups[1]) = 4 THEN FOUR_OF_KIND
         ELSE IF Len(dups[1]) = 3 THEN THREE_OF_KIND
         ELSE PAIR

HandInit(cards) ==
    LET sorted == Sorted(cards)
    IN  IF sorted = <<>> THEN Raised("IndexError")
        ELSE LET dups == get_dups(sorted)
                 st == is_straight(sorted)
             IN  IF is_flush(sorted)
                 THEN IF st.err /= "" THEN Raised(st.err)
                      ELSE IF st.res THEN Built(STRAIGHT_FLUSH, st.cards)
                      ELSE Built(FLUSH, st.cards)
                 ELSE IF st.err /= "" THEN Raised(st.err)
                 ELSE IF st.res THEN Built(STRAIGHT, st.cards)
                 ELSE IF dups /= <<>>
                      THEN Built(DupRanking(dups), rearrange_dups(st.cards, dups))
                 ELSE Built(HIGH_CARD, st.cards)

----------------------------------------------------------------------------
(* Hand.__lt__, Hand.__eq__ and the __gt__ of total_ordering               *)

Min2(a, b) == IF a < b THEN a ELSE b

\* mutant: the scan ends with True, so a hand is below an equal hand
RECURSIVE LtScanOrEqual(_, _, _)
LtScanOrEqual(a, b, k) ==
    IF k >= Min2(Len(a), Len(b)) THEN TRUE
    ELSE IF CardLt(a[Len(a) - k], b[Len(b) - k]) THEN TRUE
    ELSE IF CardGt(a[Len(a) - k], b[Len(b) - k]) THEN FALSE
    ELSE LtScanOrEqual(a, b, k + 1)

\* mutant: the scan runs from the first card, zip(self.cards, other.cards)
RECURSIVE LtScanForward(_, _, _)
LtScanForward(a, b, k) ==
    IF k >= Min2(Len(a), Len(b)) THEN FALSE
    ELSE IF CardLt(a[k + 1], b[k + 1]) THEN TRUE
    ELSE IF CardGt(a[k + 1], b[k + 1]) THEN FALSE
    ELSE LtScanForward(a, b, k + 1)

\* zip(self.cards[::-1], other.cards[::-1]) from its k-th pair on (k = 0 first)
RECURSIVE LtScan(_, _, _)
LtScan(a, b, k) ==
    IF k >= Min2(Len(a), Len(b)) THEN FALSE
    ELSE IF CardLt(a[Len(a) - k], b[Len(b) - k]) THEN TRUE
    ELSE IF CardGt(a[Len(a) - k], b[Len(b) - k]) THEN FALSE
    ELSE LtScan(a, b, k + 1)

\* mutant: the categories are not compared, only the cards
HandLtCardsOnly(x, y) == LtScan(x.cards, y.cards, 0)

HandLt(x, y) ==
    IF RankingLt(x.rank, y.rank) THEN TRUE
    ELSE IF RankingGt(x.rank, y.rank) THEN FALSE
    ELSE LtScan(x.cards, y.cards, 0)

HandEq(x, y) ==
    IF x.rank /= y.rank THEN FALSE
    ELSE \A i \in 1..Min2(Len(x.cards), Len(y.cards)) : CardEq(x.cards[i], y.cards[i])

HandGt(x, y) == ~HandLt(x, y) /\ ~HandEq(x, y)


----------------------------------------------------------------------------
(* best_possible_hand                                                      *)

\* itertools.combinations(range(n), r): the successor of index tuple c
\* (0-based indices, lexicographic order), <<>> after the last one
NextCombination(c, n, r) ==
    LET movable == {i \in 1..r : c[i] /= (i - 1) + n - r}
    IN  IF movable = {} THEN <<>>
        ELSE LET i == CHOOSE m \in movable : \A q \in movable : q <= m
             IN  [j \in 1..r |-> IF j < i THEN c[j] ELSE c[i] + 1 + (j - i)]

Select(pool, c) == [j \in 1..Len(c) |-> pool[c[j] + 1]]

\* mutant: min(...) in place of max(...)
RECURSIVE MaxScanMin(_, _, _)
MaxScanMin(pool, c, maxval) ==
    IF c = <<>> THEN maxval
    ELSE LET item == HandInit(Select(pool, c))
         IN  IF HandLt(item, maxval)
             THEN MaxScanMin(pool, NextCombination(c, Len(pool), 5), item)
             ELSE MaxScanMin(pool, NextCombination(c, Len(pool), 5), maxval)

\* max(...): keeps the first item unless a later one is greater
RECURSIVE MaxScan(_, _, _)
MaxScan(pool, c, maxval) ==
    IF c = <<>> THEN maxval
    ELSE LET item == HandInit(Select(pool, c))
         IN  IF HandGt(item, maxval)
             THEN MaxScan(pool, NextCombination(c, Len(pool), 5), item)
             ELSE MaxScan(pool, NextCombination(c, Len(pool), 5), maxval)

\* mutant: the private cards are left out of the pool
BestOfPublicOnly(pub, priv) ==
    LET first == [j \in 1..5 |-> j - 1]
    IN  IF Len(pub) < 5 THEN Raised("ValueError")
        ELSE MaxScan(pub, NextCombination(first, Len(pub), 5), HandInit(Select(pub, first)))

best_possible_hand(pub, priv) ==
    LET pool == pub \o priv
        first == [j \in 1..5 |-> j - 1]
    IN  IF Len(pool) < 5 THEN Raised("ValueError")
        ELSE MaxScan(pool, NextCombination(first, Len(pool), 5), HandInit(Select(pool, first)))

----------------------------------------------------------------------------
(* Deck                                                                    *)

\* [Card(suit, rank) for suit in SUITS for rank in RANKS]
Deck52 == [k \in 1..(Len(SUITS) * Len(RANKS)) |->
              Card(SUITS[((k - 1) \div Len(RANKS)) + 1], RANKS[((k - 1) % Len(RANKS)) + 1])]

\* mutant: the last card is returned but stays in the list
PopCardKeep(cards) == [card |-> cards[Len(cards)], rest |-> cards]

\* list.pop() on a non-empty list
PopCard(cards) == [card |-> cards[Len(cards)], rest |-> SubSeq(cards, 1, Len(cards) - 1)]


----------------------------------------------------------------------------
(* Inputs.  Hands are dealt as 5 cards at ascending positions of a card     *)
(* list; the lists are not sorted by rank, so sorted() has work to do.     *)

\* the mixed-suit wheel: A-spades 2-hearts 3-diamonds 4-clubs 5-spades
WheelExample ==
    <<Card("S", "A"), Card("H", "2"), Card("D", "3"), Card("C", "4"), Card("S", "5")>>

\* the cards that pairs and triples of hands are dealt from (a prefix of it)
TableCards ==
    <<Card("S", "5"), Card("S", "A"), Card("S", "3"), Card("S", "2"), Card("S", "4"),
      Card("H", "A"), Card("H", "2"), Card("D", "A"),
      Card("S", "6"), Card("C", "A"), Card("D", "2"),
      Card("S", "7"), Card("H", "3"), Card("H", "K"), Card("D", "K"),
      Card("H", "6"), Card("C", "9"), Card("D", "10")>>

\* the cards that public and private cards are dealt from (a prefix of it)
BoardCards ==
    <<Card("S", "2"), Card("H", "5"), Card("D", "9"), Card("C", "K"), Card("S", "K"),
      Card("H", "K"), Card("C", "2"), Card("D", "K"), Card("S", "5"), Card("S", "9"),
      Card("H", "A"), Card("C", "5")>>

PairCards == 11
TripleCards == 8
ArityCards == 8
BoardSize == 8
MaxPublic == 5
ShuffleDepth == 1
MaxDraws == 54

Prefix(cards, n) == SubSeq(cards, 1, n)

\* position of a card in the freshly built deck, and the order of two card
\* tuples by those positions (used to deal each pair or triple of hands once)
CardKey(c) == CHOOSE k \in 1..Len(Deck52) : Deck52[k] = c

RECURSIVE TupleLeq(_, _)
TupleLeq(x, y) ==
    IF x = <<>> THEN TRUE
    ELSE IF y = <<>> THEN FALSE
    ELSE IF CardKey(x[1]) /= CardKey(y[1]) THEN CardKey(x[1]) < CardKey(y[1])
    ELSE TupleLeq(Tail(x), Tail(y))

\* the 5-card tuples at ascending positions of cards
Deals(cards) ==
    LET n == Len(cards)
    IN  UNION {UNION {UNION {UNION {
          {<<cards[c1], cards[c2], cards[c3], cards[c4], cards[c5]>> : c5 \in (c4 + 1)..n}
          : c4 \in (c3 + 1)..(n - 1)} : c3 \in (c2 + 1)..(n - 2)}
          : c2 \in (c1 + 1)..(n - 3)} : c1 \in 1..(n - 4)}

\* card tuples of any length at ascending positions of cards
RECURSIVE SubTuples(_)
SubTuples(cards) ==
    IF cards = <<>> THEN {<<>>}
    ELSE LET rest == SubTuples(Tail(cards))
         IN  rest \cup {<<cards[1]>> \o t : t \in rest}

NoHand == [rank |-> 0, cards |-> <<>>, err |-> "none"]

Idle ==
    /\ pc = "start"
    /\ dealt = <<>>
    /\ hA = NoHand /\ hB = NoHand /\ hC = NoHand
    /\ public = <<>> /\ private = <<>> /\ best = NoHand
    /\ drawn = <<>> /\ drawErr = "" /\ calls = 0

----------------------------------------------------------------------------
(* Hand(cards): the constructor calls a driver makes                       *)

\* first Hand, from 5 cards of the list
MakeA(cards) ==
    /\ pc = "start"
    /\ \E t \in Deals(cards) :
          /\ dealt' = <<t>>
          /\ hA' = HandInit(t)
    /\ pc' = "A"
    /\ UNCHANGED <<hB, hC, public, private, best, deck, drawn, drawErr, calls>>

\* first Hand, from the example wheel
MakeWheel ==
    /\ pc = "start"
    /\ dealt' = <<WheelExample>>
    /\ hA' = HandInit(WheelExample)
    /\ pc' = "A"
    /\ UNCHANGED <<hB, hC, public, private, best, deck, drawn, drawErr, calls>>

\* first Hand, from any number of cards
MakeAny(cards) ==
    /\ pc = "start"
    /\ \E t \in SubTuples(cards) :
          /\ dealt' = <<t>>
          /\ hA' = HandInit(t)
    /\ pc' = "A"
    /\ UNCHANGED <<hB, hC, public, private, best, deck, drawn, drawErr, calls>>

\* the driver picks the first card of the second Hand from the whole deck
FirstCard ==
    /\ pc = "A"
    /\ \E c1 \in 1..(Len(Deck52) - 4) : dealt' = Append(dealt, <<Deck52[c1]>>)
    /\ pc' = "dealing"
    /\ UNCHANGED <<hA, hB, hC, public, private, best, deck, drawn, drawErr, calls>>

\* second Hand, from that card and 4 later cards of the whole deck
MakeBFromDeck ==
    /\ pc = "dealing"
    /\ LET c1 == CardKey(dealt[2][1])
           n == Len(Deck52)
       IN  \E c2 \in (c1 + 1)..(n - 3) : \E c3 \in (c2 + 1)..(n - 2) :
           \E c4 \in (c3 + 1)..(n - 1) : \E c5 \in (c4 + 1)..n :
              LET t == <<Deck52[c1], Deck52[c2], Deck52[c3], Deck52[c4], Deck52[c5]>>
              IN  /\ dealt' = <<dealt[1], t>>
                  /\ hB' = HandInit(t)
    /\ pc' = "B"
    /\ UNCHANGED <<hA, hC, public, private, best, deck, drawn, drawErr, calls>>

\* second Hand, from 5 cards of the list
MakeB(cards) ==
    /\ pc = "A"
    /\ \E t \in Deals(cards) :
          /\ TupleLeq(dealt[1], t)
          /\ dealt' = Append(dealt, t)
          /\ hB' = HandInit(t)
    /\ pc' = "B"
    /\ UNCHANGED <<hA, hC, public, private, best, deck, drawn, drawErr, calls>>

\* third Hand, from 5 cards of the list
MakeC(cards) ==
    /\ pc = "B"
    /\ \E t \in Deals(cards) :
          /\ TupleLeq(dealt[2], t)
          /\ dealt' = Append(dealt, t)
          /\ hC' = HandInit(t)
    /\ pc' = "C"
    /\ UNCHANGED <<hA, hB, public, private, best, deck, drawn, drawErr, calls>>

----------------------------------------------------------------------------
(* best_possible_hand(public, private)                                     *)

DealPublic ==
    /\ pc = "start"
    /\ \E t \in SubTuples(Prefix(BoardCards, BoardSize)) :
          /\ Len(t) \in 2..MaxPublic
          /\ public' = t
    /\ pc' = "public"
    /\ UNCHANGED <<dealt, hA, hB, hC, private, best, deck, drawn, drawErr, calls>>

DealPrivate ==
    /\ pc = "public"
    /\ \E t \in SubTuples(Prefix(BoardCards, BoardSize)) :
          /\ Len(t) = 2
          /\ \A i \in 1..2 : \A j \in 1..Len(public) : t[i] /= public[j]
          /\ private' = t
    /\ pc' = "private"
    /\ UNCHANGED <<dealt, hA, hB, hC, public, best, deck, drawn, drawErr, calls>>

Best ==
    /\ pc = "private"
    /\ best' = best_possible_hand(public, private)
    /\ pc' = "best"
    /\ UNCHANGED <<dealt, hA, hB, hC, public, private, deck, drawn, drawErr, calls>>

----------------------------------------------------------------------------
(* Deck(), Deck.draw()                                                     *)

SwapAt(cards, i, j) ==
    [k \in 1..Len(cards) |-> IF k = i THEN cards[j] ELSE IF k = j THEN cards[i] ELSE cards[k]]

\* random.shuffle: for i from the last position down, swap position i with a
\* random position j <= i.  The first `depth` steps draw any j; the later
\* steps draw j = i.
RECURSIVE Shuffles(_, _, _)
Shuffles(cards, i, depth) ==
    IF depth = 0 \/ i <= 1 THEN {cards}
    ELSE UNION {Shuffles(SwapAt(cards, i, j), i - 1, depth - 1) : j \in 1..i}

DeckInit == deck \in Shuffles(Deck52, Len(Deck52), ShuffleDepth)

Draw ==
    /\ calls < MaxDraws
    /\ calls' = calls + 1
    /\ IF deck = <<>>
       THEN /\ drawErr' = "IndexError"
            /\ UNCHANGED <<deck, drawn>>
       ELSE /\ drawn' = Append(drawn, PopCard(deck).card)
            /\ deck' = PopCard(deck).rest
            /\ drawErr' = ""
    /\ UNCHANGED <<pc, dealt, hA, hB, hC, public, private, best>>

----------------------------------------------------------------------------
(* Specifications                                                          *)

\* one Hand against every Hand of the deck
InitDeal == Idle /\ deck = <<>>
NextDeal == MakeWheel \/ FirstCard \/ MakeBFromDeck
SpecDeal == InitDeal /\ [][NextDeal]_vars

\* every pair of Hands of the table cards
InitPairs == Idle /\ deck = <<>>
NextPairs == MakeA(Prefix(TableCards, PairCards)) \/ MakeB(Prefix(TableCards, PairCards))
SpecPairs == InitPairs /\ [][NextPairs]_vars

\* every triple of Hands of the table cards
InitTriples == Idle /\ deck = <<>>
NextTriples ==
    \/ MakeA(Prefix(TableCards, TripleCards))
    \/ MakeB(Prefix(TableCards, TripleCards))
    \/ MakeC(Prefix(TableCards, TripleCards))
SpecTriples == InitTriples /\ [][NextTriples]_vars

\* Hand(...) on any number of cards
InitArity == Idle /\ deck = <<>>
NextArity == MakeAny(Prefix(TableCards, ArityCards))
SpecArity == InitArity /\ [][NextArity]_vars

\* best_possible_hand on the board cards
InitBest == Idle /\ deck = <<>>
NextBest == DealPublic \/ DealPrivate \/ Best
SpecBest == InitBest /\ [][NextBest]_vars

\* a fresh Deck and its draws
InitDeck == Idle /\ DeckInit
NextDeck == Draw
SpecDeck == InitDeck /\ [][NextDeck]_vars


----------------------------------------------------------------------------
(* Standard poker, stated on the cards handed to Hand(...) and without the  *)
(* code's sort, dup groups or rearrangement.                               *)

StdRankSet(t) == {RanksIndex(t[i].rank) : i \in 1..Len(t)}

RankCount(t, r) == Cardinality({i \in 1..Len(t) : RanksIndex(t[i].rank) = r})

\* the multiplicities of the ranks that occur, e.g. {2, 3} for a full house
StdCounts(t) == {RankCount(t, r) : r \in StdRankSet(t)}

StdFlush(t) == \A i \in 1..Len(t) : t[i].suit = t[1].suit

LowAce(t) == StdRankSet(t) = {0, 1, 2, 3, 12}

StdConsecutive(t) ==
    /\ Cardinality(StdRankSet(t)) = 5
    /\ \/ LowAce(t)
       \/ \E lo \in StdRankSet(t) : StdRankSet(t) = lo..(lo + 4)

StdCategory(t) ==
    IF StdFlush(t) /\ StdConsecutive(t) THEN STRAIGHT_FLUSH
    ELSE IF 4 \in StdCounts(t) THEN FOUR_OF_KIND
    ELSE IF StdCounts(t) = {2, 3} THEN FULL_HOUSE
    ELSE IF StdFlush(t) THEN FLUSH
    ELSE IF StdConsecutive(t) THEN STRAIGHT
    ELSE IF 3 \in StdCounts(t) THEN THREE_OF_KIND
    ELSE IF Cardinality(StdRankSet(t)) = 3 THEN TWO_PAIR
    ELSE IF Cardinality(StdRankSet(t)) = 4 THEN PAIR
    ELSE HIGH_CARD

\* a rank's value in a tie-break: the ace of a wheel counts below the 2
RankValue(t, r) == IF LowAce(t) /\ r = 12 THEN 0 - 1 ELSE r

\* orders ranks by multiplicity, then by value
KeyWeight(t, r) == RankCount(t, r) * 100 + RankValue(t, r)

\* the ranks of S, most significant first; each repeated `rep` times or once
RECURSIVE KeyOf(_, _, _)
KeyOf(t, S, rep) ==
    IF S = {} THEN <<>>
    ELSE LET m == CHOOSE r \in S : \A q \in S : KeyWeight(t, q) <= KeyWeight(t, r)
         IN  [i \in 1..(IF rep THEN RankCount(t, m) ELSE 1) |-> RankValue(t, m)]
                 \o KeyOf(t, S \ {m}, rep)

\* the standard tie-break key: rank of the largest group, then of the next, ...,
\* then the kickers from the highest down
StdKey(t) == KeyOf(t, StdRankSet(t), FALSE)

RECURSIVE LexLess(_, _)
LexLess(x, y) ==
    IF x = <<>> \/ y = <<>> THEN FALSE
    ELSE IF x[1] /= y[1] THEN x[1] < y[1]
    ELSE LexLess(Tail(x), Tail(y))

\* the canonical card sequence read from its last card to its first is the
\* key with every rank repeated as often as it occurs
Canonical(h, t) ==
    /\ Len(h.cards) = 5
    /\ [i \in 1..5 |-> RankValue(t, RanksIndex(h.cards[6 - i].rank))] = KeyOf(t, StdRankSet(t), TRUE)

SameRanks(s, t) ==
    /\ StdRankSet(s) = StdRankSet(t)
    /\ \A r \in StdRankSet(s) : RankCount(s, r) = RankCount(t, r)

----------------------------------------------------------------------------
(* Claims                                                                  *)

\* C1: every 5-card hand of distinct cards of the 52-card deck is given its
\* standard poker category by the constructor.
C1_StandardCategory ==
    pc = "B" => hB.err = "" /\ hB.rank = StdCategory(dealt[2])

\* C1 witness: a full house whose three-of-a-kind ranks below its pair (the
\* case the dup-group swap exists for).
C1_Witness ==
    /\ pc = "B"
    /\ hB.rank = FULL_HOUSE
    /\ StdCategory(dealt[2]) = FULL_HOUSE
    /\ CardLt(hB.cards[5], hB.cards[1])

\* C5: the mixed-suit wheel is a Straight and compares strictly below every
\* Straight that is not itself a wheel, the 6-high straight included.
C5_WheelLowestStraight ==
    /\ pc \in {"A", "B"} => hA.rank = STRAIGHT
    /\ (pc = "B" /\ hB.rank = STRAIGHT /\ ~LowAce(dealt[2]))
          => HandLt(hA, hB) /\ ~HandLt(hB, hA) /\ ~HandEq(hA, hB) /\ HandGt(hB, hA)

\* C5 witness: the wheel against the 6-high straight 2s 3h 4d 5c 6s.
C5_Witness ==
    /\ pc = "B"
    /\ dealt[2] = <<Card("S", "2"), Card("S", "6"), Card("H", "3"), Card("D", "4"), Card("C", "5")>>
    /\ hA.rank = STRAIGHT /\ hB.rank = STRAIGHT
    /\ HandLt(hA, hB)

\* C6 as claimed: the wheel straight compares below any hand of category Pair.
C6_WheelBelowPair ==
    (pc = "B" /\ hB.rank = PAIR) => HandLt(hA, hB)

\* C6 amended: the wheel straight compares above any hand of category Pair.
C6_WheelAbovePair ==
    (pc = "B" /\ hB.rank = PAIR)
        => HandLt(hB, hA) /\ HandGt(hA, hB) /\ ~HandLt(hA, hB) /\ ~HandEq(hA, hB)

\* C6 witness: the wheel against a pair of aces.
C6_Witness ==
    /\ pc = "B"
    /\ hA.rank = STRAIGHT
    /\ hB.rank = PAIR /\ hB.cards[5].rank = "A"
    /\ HandGt(hA, hB)


\* C2: the Hand ordering is a strict total order: for any two hands exactly
\* one of x < y, x == y, x > y holds (x > y being y < x, and x == y being
\* neither x < y nor y < x), and x < y, y < z imply x < z.
C2_StrictTotalOrder ==
    pc = "C" =>
        \* lt, eq, gt: the three comparisons of every two of the hands
        \A lt \in {[i \in 1..3 |-> [j \in 1..3 |-> HandLt(<<hA, hB, hC>>[i], <<hA, hB, hC>>[j])]]} :
        \A eq \in {[i \in 1..3 |-> [j \in 1..3 |-> HandEq(<<hA, hB, hC>>[i], <<hA, hB, hC>>[j])]]} :
        \A gt \in {[i \in 1..3 |-> [j \in 1..3 |-> HandGt(<<hA, hB, hC>>[i], <<hA, hB, hC>>[j])]]} :
            \A i \in 1..3 : \A j \in 1..3 :
                /\ \/ lt[i][j] /\ ~eq[i][j] /\ ~gt[i][j]
                   \/ ~lt[i][j] /\ eq[i][j] /\ ~gt[i][j]
                   \/ ~lt[i][j] /\ ~eq[i][j] /\ gt[i][j]
                /\ gt[i][j] <=> lt[j][i]
                /\ eq[i][j] <=> (~lt[i][j] /\ ~lt[j][i])
                /\ \A k \in 1..3 : (lt[i][j] /\ lt[j][k]) => lt[i][k]

\* C2 witness: two different deals that compare equal, both below a third
\* hand of the same category.
C2_Witness ==
    /\ pc = "C"
    /\ dealt[1] /= dealt[2]
    /\ HandEq(hA, hB)
    /\ hB.rank = hC.rank
    /\ HandLt(hB, hC) /\ HandLt(hA, hC)

\* C3: for two hands of the same category, the canonical card sequences are
\* kickers ascending then the dup groups (the larger group last), and the
\* reverse positional scan is the standard tie-break: group ranks from the
\* largest group down, then kickers from the highest down; equal only when
\* all of them match.
C3_StandardTieBreak ==
    (pc = "B" /\ hA.rank = hB.rank) =>
        \A keyA \in {StdKey(dealt[1])} : \A keyB \in {StdKey(dealt[2])} :
            /\ Canonical(hA, dealt[1]) /\ Canonical(hB, dealt[2])
            /\ HandLt(hA, hB) <=> LexLess(keyA, keyB)
            /\ HandLt(hB, hA) <=> LexLess(keyB, keyA)
            /\ HandEq(hA, hB) <=> (keyA = keyB)
            /\ HandEq(hB, hA) <=> (keyA = keyB)

\* C3 witness: two full houses where the hand with the higher pair loses,
\* because its three-of-a-kind is lower.
C3_Witness ==
    /\ pc = "B"
    /\ hA.rank = FULL_HOUSE /\ hB.rank = FULL_HOUSE
    /\ \/ HandLt(hA, hB) /\ CardGt(hA.cards[1], hB.cards[1])
       \/ HandLt(hB, hA) /\ CardGt(hB.cards[1], hA.cards[1])

\* C10 as claimed: two hands with the same rank multiset that differ only in
\* suits compare equal.
C10_SuitsNeverMatter ==
    (pc = "B" /\ SameRanks(dealt[1], dealt[2]))
        => HandEq(hA, hB) /\ ~HandLt(hA, hB) /\ ~HandLt(hB, hA)

\* C10 amended: two hands with the same rank multiset that differ only in
\* suits, and are both single-suited or both not single-suited, compare equal.
C10_SuitsMatterOnlyForFlush ==
    (pc = "B" /\ SameRanks(dealt[1], dealt[2]) /\ (StdFlush(dealt[1]) <=> StdFlush(dealt[2])))
        => /\ HandEq(hA, hB) /\ HandEq(hB, hA)
           /\ ~HandLt(hA, hB) /\ ~HandLt(hB, hA)
           /\ ~HandGt(hA, hB) /\ ~HandGt(hB, hA)

\* C10 witness: two pairs of aces with the same kickers, dealt from
\* different cards.
C10_Witness ==
    /\ pc = "B"
    /\ dealt[1] /= dealt[2]
    /\ SameRanks(dealt[1], dealt[2])
    /\ hA.rank = PAIR /\ hB.rank = PAIR /\ hA.cards[5].rank = "A"
    /\ HandEq(hA, hB)

\* C4: for a pool of at least 5 cards, best_possible_hand returns the Hand of
\* 5 cards of the pool, and no 5 cards of the pool make a Hand that is
\* strictly greater.
C4_BestIsMaximal ==
    (pc = "best" /\ Len(public \o private) >= 5) =>
        /\ best.err = ""
        /\ \E t \in Deals(public \o private) : best = HandInit(t)
        /\ \A t \in Deals(public \o private) :
              ~HandGt(HandInit(t), best) /\ ~HandLt(best, HandInit(t))

\* C4 witness: a pool of 6 cards (4 public, 2 private) whose best hand is a
\* full house or better.
C4_Witness ==
    /\ pc = "best"
    /\ Len(public) = 4 /\ Len(private) = 2
    /\ best.err = ""
    /\ best.rank >= FULL_HOUSE

ExamplePublic ==
    <<Card("S", "2"), Card("H", "5"), Card("D", "9"), Card("C", "K"), Card("S", "K")>>

ExamplePrivate == <<Card("H", "K"), Card("C", "2")>>

HandRanks(h) == [i \in 1..Len(h.cards) |-> h.cards[i].rank]

\* C7 as claimed: on public 2s 5h 9d Kc Ks and private Kh 2c the result is
\* four Kings with the 9 as kicker.
C7_ExampleFourKings ==
    (pc = "best" /\ public = ExamplePublic /\ private = ExamplePrivate)
        => best.rank = FOUR_OF_KIND /\ HandRanks(best) = <<"9", "K", "K", "K", "K">>

\* C7 amended: on that input the result is the full house of three Kings and
\* two 2s (the pool holds only three Kings).
C7_ExampleKingsFull ==
    (pc = "best" /\ public = ExamplePublic /\ private = ExamplePrivate)
        => best.rank = FULL_HOUSE /\ HandRanks(best) = <<"2", "2", "K", "K", "K">>

\* C7 witness: best_possible_hand has returned on the example input.
C7_Witness ==
    /\ pc = "best"
    /\ public = ExamplePublic /\ private = ExamplePrivate
    /\ best.err = ""
    /\ Cardinality({i \in 1..5 : best.cards[i].rank = "K"}) = 3

\* C8: the first 52 draws of a fresh Deck succeed: after k of them the deck
\* holds 52-k cards, and the cards drawn and the cards left are the 52
\* distinct (suit, rank) pairs; the 53rd draw raises and returns no card.
C8_DeckDraws ==
    /\ calls <= 52 =>
          /\ drawErr = ""
          /\ Len(drawn) = calls
          /\ Len(deck) = 52 - calls
    /\ calls >= 53 =>
          /\ drawErr = "IndexError"
          /\ Len(drawn) = 52
          /\ deck = <<>>
    /\ Cardinality({<<c.suit, c.rank>> : c \in {(drawn \o deck)[i] : i \in 1..Len(drawn \o deck)}}) = 52
    /\ Len(drawn \o deck) = 52

\* C8 witness: the 53rd draw has been made and has raised.
C8_Witness ==
    /\ calls = 53
    /\ drawErr = "IndexError"
    /\ Len(drawn) = 52

\* C9 as claimed: Hand(cards) with other than 5 cards raises; it never
\* returns a Hand with a category.
C9_OnlyFiveCards ==
    (pc = "A" /\ Len(dealt[1]) /= 5) => hA.err /= ""

=============================================================================
